---- MODULE Spec2Model ----
(***************************************************************************)
(* Model of olenevoid/seller-apis: seller.py (Ozon, "Marketplace A") and   *)
(* market.py (Yandex.Market, "Marketplace B").                             *)
(*                                                                         *)
(* Texts (quantities, prices) are sequences of one-character strings, so   *)
(* that str.split, re.sub and int() are computed character by character.   *)
(* The module is plain ASCII: the Cyrillic letters of the source data are  *)
(* written with Latin letters ("r", "u", "b"), and the dictionary keys     *)
(* "Код", "Количество", "Цена" are the record fields Kod, Kolichestvo,     *)
(* Tsena.                                                                  *)
(***************************************************************************)
EXTENDS Integers, Sequences, FiniteSets, TLC

VARIABLES
    mode,            \* which specification's part of the state is live
    catalog,         \* the identifiers the marketplace lists
    program,         \* "seller" or "market": whose code runs
    account,         \* the account (sub-account) main is working on
    pc,              \* position of the running function
    watch_remnants,  \* the supplier feed: a list of supplier records
    offer_ids,       \* the list of known offer identifiers (mutable list)
    stocks,          \* the list create_stocks returned
    prices,          \* the list create_prices returned
    pending,         \* list(divide(...)): the chunks not yet sent
    calls,           \* the HTTP calls issued so far, in order
    printed,         \* the messages print() wrote, in order
    coroutines,      \* coroutine objects created and never awaited
    raised,          \* the exception a function let escape ("" when none)
    text,            \* input text of a pure text function
    lst,             \* input list of divide
    n,               \* chunk size given to divide
    out,             \* result of the pure function under check
    product_list,    \* get_offer_ids: the products of the pages received
    cursor           \* get_offer_ids: last_id / page, the next-page token

vars == <<mode, catalog, program, account, pc, watch_remnants, offer_ids,
          stocks,
          prices, pending, calls, printed, coroutines, raised, text, lst,
          n, out, product_list, cursor>>

\* The state of the pure functions under check, of a builder run and of
\* an orchestrator run.
pureVars == <<text, lst, n, out>>
buildVars == <<catalog, watch_remnants, offer_ids, stocks, prices, raised>>
runVars == <<account, pending, calls, printed, coroutines>>
readVars == <<product_list, cursor>>

(***************************************************************************)
(* Bounds of the model.                                                    *)
(***************************************************************************)
MaxFeed == 2          \* longest supplier feed
MaxIds == 3           \* longest list of known offer identifiers
MaxLen == 5           \* longest list given to divide
MaxN == 3             \* largest chunk size given to divide
MaxTextLen == 3       \* longest enumerated text (quantities, prices)
\* The batch sizes of the source (100, 900, 2000) scaled down so that
\* a payload of a few records splits into more than one chunk.
SellerStockBatch == 2
SellerPriceBatch == 2
MarketStockBatch == 2
MaxRunIds == 5        \* longest catalog of an orchestrator run
MaxDbsIds == 1        \* longest catalog of the second sub-account
\* The page sizes of the source ("limit": 1000 and 200) scaled down so that
\* a catalog of a few products takes more than one page.
SellerPageLimit == 2
MarketPageLimit == 2

(***************************************************************************)
(* Texts.                                                                  *)
(***************************************************************************)
Digits == {"0", "1", "2", "3", "4", "5", "6", "7", "8", "9"}

DigitValue(c) ==
    CASE c = "0" -> 0 [] c = "1" -> 1 [] c = "2" -> 2 [] c = "3" -> 3
      [] c = "4" -> 4 [] c = "5" -> 5 [] c = "6" -> 6 [] c = "7" -> 7
      [] c = "8" -> 8 [] c = "9" -> 9

\* All sequences over S of length at most k.
SeqUpTo(S, k) == UNION {[1..m -> S] : m \in 0..k}

\* str.strip(): leading and trailing blanks removed (int() does this first).
RECURSIVE LStrip(_)
LStrip(s) == IF s # <<>> /\ Head(s) = " " THEN LStrip(Tail(s)) ELSE s

RECURSIVE RStrip(_)
RStrip(s) ==
    IF s # <<>> /\ s[Len(s)] = " " THEN RStrip(SubSeq(s, 1, Len(s) - 1)) ELSE s

\* Value of a string of decimal digits, most significant first.
RECURSIVE DecimalValue(_, _)
DecimalValue(s, acc) ==
    IF s = <<>> THEN acc
    ELSE DecimalValue(Tail(s), 10 * acc + DigitValue(Head(s)))

\* Python's int(str): optional blanks, an optional sign, at least one
\* decimal digit and nothing else; anything else raises ValueError
\* (ok = FALSE).  Underscore digit separators are not in the alphabets
\* of the model.
int(s) ==
    LET t == RStrip(LStrip(s))
        signed == t # <<>> /\ Head(t) \in {"-", "+"}
        body == IF signed THEN Tail(t) ELSE t
        valid == body # <<>> /\ \A i \in 1..Len(body) : body[i] \in Digits
        magnitude == IF valid THEN DecimalValue(body, 0) ELSE 0
    IN  [ok |-> valid,
         val |-> IF signed /\ Head(t) = "-" THEN 0 - magnitude ELSE magnitude]

\* str.split(sep): the list of the parts between the separators.
RECURSIVE SplitFrom(_, _, _, _)
SplitFrom(s, sep, i, part) ==
    IF i > Len(s) THEN <<part>>
    ELSE IF s[i] = sep THEN <<part>> \o SplitFrom(s, sep, i + 1, <<>>)
    ELSE SplitFrom(s, sep, i + 1, Append(part, s[i]))

split(s, sep) == SplitFrom(s, sep, 1, <<>>)

\* re.sub("[^0-9]", "", s): every character outside 0-9 replaced by nothing.
RECURSIVE re_sub_non_digits(_)
re_sub_non_digits(s) ==
    IF s = <<>> THEN <<>>
    ELSE IF Head(s) \in Digits
         THEN <<Head(s)>> \o re_sub_non_digits(Tail(s))
         ELSE re_sub_non_digits(Tail(s))

\* Mutant: the fractional part is not cut off.
price_conversion_no_split(price) == re_sub_non_digits(price)

\* seller.price_conversion
price_conversion(price) == re_sub_non_digits(split(price, ".")[1])

(***************************************************************************)
(* divide                                                                  *)
(***************************************************************************)
\* lst[i : j] for 0-based i <= j, clamped to the list as Python does.
Slice(l, i, j) ==
    SubSeq(l, i + 1, IF j < Len(l) THEN j ELSE Len(l))

\* The generator's loop: for i in range(0, len(lst), n): yield lst[i : i + n]
RECURSIVE DivideFrom(_, _, _)
DivideFrom(l, size, i) ==
    IF i >= Len(l) THEN <<>>
    ELSE <<Slice(l, i, i + size)>> \o DivideFrom(l, size, i + size)

\* Mutant: the last, shorter chunk is dropped.
divide_drop_tail(l, size) ==
    LET all == DivideFrom(l, size, 0)
    IN  SelectSeq(all, LAMBDA c : Len(c) = size)

\* list(seller.divide(lst, n))
divide(l, size) == DivideFrom(l, size, 0)

(***************************************************************************)
(* Delta Builder: create_stocks and create_prices of both marketplaces.    *)
(* A supplier record is [Kod, Kolichestvo, Tsena]; Kod is the code as      *)
(* str() gives it, Kolichestvo and Tsena are texts.  A builder returns     *)
(* [raised, stocks | prices, offer_ids]: the exception that escaped ("" if *)
(* none), the list built, and the caller's offer_ids list as the call left *)
(* it (create_stocks removes from the list it is given).                   *)
(***************************************************************************)
\* x in lst
In(x, l) == \E i \in 1..Len(l) : l[i] = x

\* list.remove(x): the first occurrence of x is removed.
remove(l, x) ==
    LET first == CHOOSE i \in 1..Len(l) :
                     l[i] = x /\ \A j \in 1..(i - 1) : l[j] # x
    IN  SubSeq(l, 1, first - 1) \o SubSeq(l, first + 1, Len(l))

GT10 == <<">", "1", "0">>

\* Mutant: the quantity "1" is taken at face value.
StockOfCountFaceValue(count) ==
    IF count = GT10 THEN [ok |-> TRUE, val |-> 100] ELSE int(count)

\* The coercion of a quantity: ">10" is 100, "1" is 0, otherwise int().
StockOfCount(count) ==
    IF count = GT10 THEN [ok |-> TRUE, val |-> 100]
    ELSE IF count = <<"1">> THEN [ok |-> TRUE, val |-> 0]
    ELSE int(count)

\* Mutant: no record for the offers the supplier does not have.
SellerZeroStocksNone(ids) == <<>>

\* for offer_id in offer_ids: stocks.append({"offer_id": offer_id, "stock": 0})
SellerZeroStocks(ids) ==
    [i \in 1..Len(ids) |-> [offer_id |-> ids[i], stock |-> 0]]

\* The first loop of seller.create_stocks from record i on, then the second.
RECURSIVE SellerStocksFrom(_, _, _, _)
SellerStocksFrom(feed, i, acc, ids) ==
    IF i > Len(feed)
    THEN [raised |-> "", stocks |-> acc \o SellerZeroStocks(ids),
          offer_ids |-> ids]
    ELSE LET watch == feed[i] IN
         IF In(watch.Kod, ids)
         THEN LET stock == StockOfCount(watch.Kolichestvo) IN
              IF ~stock.ok
              THEN [raised |-> "ValueError", stocks |-> <<>>,
                    offer_ids |-> ids]
              ELSE SellerStocksFrom(
                       feed, i + 1,
                       Append(acc, [offer_id |-> watch.Kod,
                                    stock |-> stock.val]),
                       remove(ids, watch.Kod))
         ELSE SellerStocksFrom(feed, i + 1, acc, ids)

\* seller.create_stocks
SellerCreateStocks(feed, ids) == SellerStocksFrom(feed, 1, <<>>, ids)

\* One entry of the "skus" payload of Marketplace B.
MarketSku(sku, warehouse_id, count, date) ==
    [sku |-> sku, warehouseId |-> warehouse_id,
     items |-> << [count |-> count, type |-> "FIT", updatedAt |-> date] >>]

\* The second loop of market.create_stocks.
MarketZeroStocks(ids, warehouse_id, date) ==
    [i \in 1..Len(ids) |-> MarketSku(ids[i], warehouse_id, 0, date)]

\* The first loop of market.create_stocks from record i on, then the second.
RECURSIVE MarketStocksFrom(_, _, _, _, _, _)
MarketStocksFrom(feed, i, acc, ids, warehouse_id, date) ==
    IF i > Len(feed)
    THEN [raised |-> "",
          stocks |-> acc \o MarketZeroStocks(ids, warehouse_id, date),
          offer_ids |-> ids]
    ELSE LET watch == feed[i] IN
         IF In(watch.Kod, ids)
         THEN LET stock == StockOfCount(watch.Kolichestvo) IN
              IF ~stock.ok
              THEN [raised |-> "ValueError", stocks |-> <<>>,
                    offer_ids |-> ids]
              ELSE MarketStocksFrom(
                       feed, i + 1,
                       Append(acc, MarketSku(watch.Kod, warehouse_id,
                                             stock.val, date)),
                       remove(ids, watch.Kod), warehouse_id, date)
         ELSE MarketStocksFrom(feed, i + 1, acc, ids, warehouse_id, date)

\* The value of datetime.utcnow() when create_stocks runs: one clock
\* reading, the same for every record of a call.
UtcNow == "utcnow"

\* market.create_stocks
MarketCreateStocks(feed, ids, warehouse_id) ==
    MarketStocksFrom(feed, 1, <<>>, ids, warehouse_id, UtcNow)

\* One entry of the "prices" payload of Marketplace A.
SellerPrice(watch) ==
    [auto_action_enabled |-> "UNKNOWN", currency_code |-> "RUB",
     offer_id |-> watch.Kod, old_price |-> <<"0">>,
     price |-> price_conversion(watch.Tsena)]

\* Mutant: a price for every supplier record, listed on the marketplace
\* or not.
SellerCreatePricesUnfiltered(feed, ids) ==
    [raised |-> "",
     prices |-> [i \in 1..Len(feed) |-> SellerPrice(feed[i])],
     offer_ids |-> ids]

\* seller.create_prices
SellerCreatePrices(feed, ids) ==
    [raised |-> "",
     prices |-> LET matched == SelectSeq(feed, LAMBDA w : In(w.Kod, ids))
                IN  [i \in 1..Len(matched) |-> SellerPrice(matched[i])],
     offer_ids |-> ids]

\* One entry of the "offers" payload of Marketplace B.
MarketPrice(Kod, value) ==
    [id |-> Kod, price |-> [value |-> value, currencyId |-> "RUR"]]

\* The loop of market.create_prices from record i on; int() of a price
\* without a digit before the period raises ValueError.
RECURSIVE MarketPricesFrom(_, _, _, _)
MarketPricesFrom(feed, i, acc, ids) ==
    IF i > Len(feed)
    THEN [raised |-> "", prices |-> acc, offer_ids |-> ids]
    ELSE LET watch == feed[i] IN
         IF In(watch.Kod, ids)
         THEN LET value == int(price_conversion(watch.Tsena)) IN
              IF ~value.ok
              THEN [raised |-> "ValueError", prices |-> <<>>,
                    offer_ids |-> ids]
              ELSE MarketPricesFrom(
                       feed, i + 1,
                       Append(acc, MarketPrice(watch.Kod, value.val)), ids)
         ELSE MarketPricesFrom(feed, i + 1, acc, ids)

\* market.create_prices
MarketCreatePrices(feed, ids) == MarketPricesFrom(feed, 1, <<>>, ids)

(***************************************************************************)
(* divide on every short list: SpecDivide.                                 *)
(***************************************************************************)
Items == {1, 2, 3}

NoBuild ==
    /\ catalog = <<>> /\ watch_remnants = <<>> /\ offer_ids = <<>>
    /\ stocks = <<>> /\ prices = <<>> /\ raised = ""

\* The empty token: last_id = "" and page = "" before the first request, a
\* nextPageToken that is empty or absent.  A token is otherwise the
\* number of products served so far.
NoToken == 0

NoRead == product_list = <<>> /\ cursor = NoToken

NoRun ==
    /\ NoRead
    /\ account = ""
    /\ pending = <<>> /\ calls = <<>> /\ printed = <<>> /\ coroutines = 0

InitDivide ==
    /\ mode = "divide" /\ program = "seller" /\ pc = "start"
    /\ lst \in SeqUpTo(Items, MaxLen) \cup {<<1, 2, 3, 4, 5>>}
    /\ n \in 1..MaxN
    /\ text = <<>> /\ out = <<>>
    /\ NoBuild /\ NoRun

Divide ==
    /\ mode = "divide" /\ pc = "start"
    /\ out' = divide(lst, n)
    /\ pc' = "done"
    /\ UNCHANGED <<mode, program, text, lst, n, buildVars, runVars,
                   readVars>>

SpecDivide == InitDivide /\ [][Divide]_vars

(***************************************************************************)
(* price_conversion on every short price text: SpecPrice.                  *)
(***************************************************************************)
PriceAlphabet == {"5", "9", "0", "'", ".", " ", "r"}

\* "5'990.00 руб." and "Цена: отсутствует" with Latin letters.
PriceExample ==
    <<"5", "'", "9", "9", "0", ".", "0", "0", " ", "r", "u", "b", ".">>
PriceAbsent ==
    <<"C", "e", "n", "a", ":", " ", "o", "t", "s", "u", "t", "s", "t", "v",
      "u", "e", "t">>

InitPrice ==
    /\ mode = "price" /\ program = "seller" /\ pc = "start"
    /\ text \in SeqUpTo(PriceAlphabet, MaxTextLen)
                  \cup {PriceExample, PriceAbsent}
    /\ lst = <<>> /\ n = 1 /\ out = <<>>
    /\ NoBuild /\ NoRun

Convert ==
    /\ mode = "price" /\ pc = "start"
    /\ out' = price_conversion(text)
    /\ pc' = "done"
    /\ UNCHANGED <<mode, program, text, lst, n, buildVars, runVars,
                   readVars>>

SpecPrice == InitPrice /\ [][Convert]_vars

\* Concatenation of a list of lists.
RECURSIVE Concat(_)
Concat(ll) == IF ll = <<>> THEN <<>> ELSE Head(ll) \o Concat(Tail(ll))

\* C5: divide(lst, n) yields chunks whose concatenation is lst, each of 1
\* to n items, all but the last of exactly n items; the empty list yields
\* no chunk, and divide([1,2,3,4,5], 2) is [[1,2],[3,4],[5]].
C5_DivideChunks ==
    (mode = "divide" /\ pc = "done") =>
        /\ Concat(out) = lst
        /\ \A k \in 1..Len(out) : Len(out[k]) >= 1 /\ Len(out[k]) <= n
        /\ \A k \in 1..(Len(out) - 1) : Len(out[k]) = n
        /\ (lst = <<>> => out = <<>>)
        /\ (lst = <<1, 2, 3, 4, 5>> /\ n = 2
                => out = <<(<<1, 2>>), (<<3, 4>>), (<<5>>)>>)

C5_Witness ==
    /\ mode = "divide" /\ pc = "done"
    /\ lst = <<1, 2, 3, 4, 5>> /\ n = 2
    /\ Len(out) = 3 /\ Len(out[3]) = 1

\* The positions of text before its first period that hold a digit.
DigitPositions(s) ==
    LET periods == {i \in 1..Len(s) : s[i] = "."}
        stop == IF periods = {} THEN Len(s) + 1
                ELSE CHOOSE i \in periods : \A j \in periods : i <= j
    IN  {i \in 1..(stop - 1) : s[i] \in Digits}

\* C8: price_conversion returns exactly the digits, in order, of the part
\* before the first period: only digits, no fractional part, and the empty
\* string when that part has no digit; "5'990.00 rub." gives "5990".
C8_PriceDigits ==
    (mode = "price" /\ pc = "done") =>
        LET pos == DigitPositions(text)
            nth(j) == CHOOSE p \in pos : Cardinality({q \in pos : q < p}) = j - 1
        IN  /\ \A j \in 1..Len(out) : out[j] \in Digits
            /\ Len(out) = Cardinality(pos)
            /\ \A j \in 1..Len(out) : out[j] = text[nth(j)]
            /\ (text = PriceExample => out = <<"5", "9", "9", "0">>)
            /\ (text = PriceAbsent => out = <<>>)

C8_Witness ==
    /\ mode = "price" /\ pc = "done"
    /\ text = PriceExample /\ out = <<"5", "9", "9", "0">>

(***************************************************************************)
(* The Delta Builder on every short feed and catalog: SpecBuild, and on    *)
(* every short quantity text: SpecCoerce.  create_stocks runs on the list  *)
(* the Catalog Reader returned; create_prices then runs either on that     *)
(* same list object (seller.main) or on a list read again from the same    *)
(* catalog (upload_prices).                                                *)
(***************************************************************************)
P100 == <<"1", "0", "0", ".", "0", "0">>
P50 == <<"5", "0", ".", "0", "0">>
PNone == <<"r", "u", "b", ".">>

\* Quantity and price of the supplier records of SpecBuild.
FeedRows ==
    {<<(<<"5">>), P100>>, <<(<<"1">>), P50>>, <<(<<"x">>), P100>>,
     <<GT10, PNone>>}

FeedCodes == {"A", "B", "X"}
CatalogCodes == {"A", "B", "C"}

SupplierRecords ==
    {[Kod |-> c, Kolichestvo |-> r[1], Tsena |-> r[2]] :
        c \in FeedCodes, r \in FeedRows}

\* The warehouse identifier of the sub-account (WAREHOUSE_FBS_ID).
Warehouse == "warehouse_fbs"

InitBuild ==
    /\ mode = "build" /\ pc = "start"
    /\ program \in {"seller", "market"}
    /\ watch_remnants \in SeqUpTo(SupplierRecords, MaxFeed)
    /\ catalog \in SeqUpTo(CatalogCodes, MaxIds)
    /\ offer_ids = catalog
    /\ stocks = <<>> /\ prices = <<>> /\ raised = ""
    /\ text = <<>> /\ lst = <<>> /\ n = 1 /\ out = <<>>
    /\ NoRun

QtyAlphabet == {"1", "0", "7", ">", "-", " ", "a"}

InitCoerce ==
    /\ mode = "build" /\ pc = "start"
    /\ program \in {"seller", "market"}
    /\ \E before \in {<<>>, <<[Kod |-> "A", Kolichestvo |-> <<"5">>,
                              Tsena |-> P50]>>},
          code \in {"A", "X"},
          count \in SeqUpTo(QtyAlphabet, MaxTextLen) :
            watch_remnants =
                Append(before, [Kod |-> code, Kolichestvo |-> count,
                                Tsena |-> P100])
    /\ catalog \in {<<"A">>, <<"A", "A">>}
    /\ offer_ids = catalog
    /\ stocks = <<>> /\ prices = <<>> /\ raised = ""
    /\ text = <<>> /\ lst = <<>> /\ n = 1 /\ out = <<>>
    /\ NoRun

BuildStocks ==
    /\ mode = "build" /\ pc = "start"
    /\ LET r == IF program = "seller"
                THEN SellerCreateStocks(watch_remnants, offer_ids)
                ELSE MarketCreateStocks(watch_remnants, offer_ids, Warehouse)
       IN  /\ stocks' = r.stocks
           /\ offer_ids' = r.offer_ids
           /\ raised' = r.raised
           /\ pc' = IF r.raised = "" THEN "stocks_built" ELSE "stocks_raised"
    /\ UNCHANGED <<mode, program, catalog, watch_remnants, prices, pureVars, readVars,
                   runVars>>

BuildPrices ==
    /\ mode = "build" /\ pc = "stocks_built"
    /\ \E ids \in {offer_ids, catalog} :
          LET r == IF program = "seller"
                   THEN SellerCreatePrices(watch_remnants, ids)
                   ELSE MarketCreatePrices(watch_remnants, ids)
          IN  /\ prices' = r.prices
              /\ raised' = r.raised
              /\ pc' = IF r.raised = "" THEN "prices_built"
                       ELSE "prices_raised"
    /\ UNCHANGED <<mode, program, catalog, watch_remnants, offer_ids, stocks,
                   pureVars, readVars, runVars>>

NextBuild == BuildStocks \/ BuildPrices

SpecBuild == InitBuild /\ [][NextBuild]_vars
SpecCoerce == InitCoerce /\ [][NextBuild]_vars

\* Identifier and quantity of a stock record, identifier of a price record.
StockId(rec) == IF program = "seller" THEN rec.offer_id ELSE rec.sku
StockQty(rec) == IF program = "seller" THEN rec.stock ELSE rec.items[1].count
PriceId(rec) == IF program = "seller" THEN rec.offer_id ELSE rec.id

StocksBuilt == mode = "build" /\ pc \in {"stocks_built", "prices_built"}
FeedCodesOf(feed) == {feed[i].Kod : i \in 1..Len(feed)}
Elements(l) == {l[i] : i \in 1..Len(l)}

\* C1: the stock records create_stocks returns hold, for every known offer
\* identifier that is the code of no supplier record, a record for it with
\* quantity zero.
C1_UnmatchedZero ==
    StocksBuilt =>
        \A id \in Elements(catalog) \ FeedCodesOf(watch_remnants) :
            \E j \in 1..Len(stocks) :
                StockId(stocks[j]) = id /\ StockQty(stocks[j]) = 0

C1_Witness ==
    /\ StocksBuilt
    /\ \E id \in Elements(catalog) \ FeedCodesOf(watch_remnants) :
          \E j \in 1..Len(stocks) :
              StockId(stocks[j]) = id /\ StockQty(stocks[j]) = 0
    /\ \E j \in 1..Len(stocks) : StockQty(stocks[j]) # 0

\* C2: the identifiers of the stock records create_stocks returns are
\* exactly the known offer identifiers, each in exactly one stock record,
\* also when the catalog list repeats an identifier.
C2_ExactlyOnce ==
    StocksBuilt =>
        /\ {StockId(stocks[j]) : j \in 1..Len(stocks)} = Elements(catalog)
        /\ \A j, k \in 1..Len(stocks) :
              StockId(stocks[j]) = StockId(stocks[k]) => j = k

\* The supplier records create_stocks matches: record i is matched when
\* fewer records before it carry its code than the catalog lists it.
Multiplicity(l, x) == Cardinality({k \in 1..Len(l) : l[k] = x})
Matched(feed, ids, i) ==
    Cardinality({j \in 1..(i - 1) : feed[j].Kod = feed[i].Kod})
        < Multiplicity(ids, feed[i].Kod)
MatchedRecords(feed, ids) == {i \in 1..Len(feed) : Matched(feed, ids, i)}

\* The matched part of the stock records: the records before the
\* zero-stock records of the identifiers left in the working list.
MatchedStocks == SubSeq(stocks, 1, Len(stocks) - Len(offer_ids))

\* A text that reads as a decimal integer: blanks, an optional sign, one or
\* more digits, blanks.
RECURSIVE Pow10(_)
Pow10(k) == IF k = 0 THEN 1 ELSE 10 * Pow10(k - 1)

IntegerSpans(s) ==
    {<<a, b>> \in (1..Len(s)) \X (1..Len(s)) :
        /\ a <= b
        /\ \A k \in 1..(a - 1) : s[k] = " "
        /\ \A k \in (b + 1)..Len(s) : s[k] = " "
        /\ s[a] \in Digits \cup {"-", "+"}
        /\ \A k \in (a + 1)..b : s[k] \in Digits
        /\ s[b] \in Digits}
ReadsAsInteger(s) == IntegerSpans(s) # {}

RECURSIVE SumDigits(_, _, _)
SumDigits(s, a, b) ==
    IF a > b THEN 0
    ELSE DigitValue(s[a]) * Pow10(b - a) + SumDigits(s, a + 1, b)

IntegerRead(s) ==
    LET span == CHOOSE sp \in IntegerSpans(s) : TRUE
        a == span[1]
        b == span[2]
    IN  IF s[a] = "-" THEN 0 - SumDigits(s, a + 1, b)
        ELSE IF s[a] = "+" THEN SumDigits(s, a + 1, b)
        ELSE SumDigits(s, a, b)

\* What the spec says a quantity text is worth, and whether it is worth
\* anything.
QuantityReadable(count) ==
    count = GT10 \/ count = <<"1">> \/ ReadsAsInteger(count)
QuantityWorth(count) ==
    IF count = GT10 THEN 100
    ELSE IF count = <<"1">> THEN 0
    ELSE IntegerRead(count)

StocksReturned == mode = "build" /\ pc \in {"stocks_built", "stocks_raised"}

\* C7 as stated: whatever the code of the record, a quantity text that is
\* neither ">10" nor "1" nor an integer makes create_stocks fail, and a
\* readable one gives a stock record with its worth.
C7_Original ==
    StocksReturned =>
        IF \E i \in 1..Len(watch_remnants) :
               ~QuantityReadable(watch_remnants[i].Kolichestvo)
        THEN raised = "ValueError" /\ stocks = <<>>
        ELSE raised = ""

\* C7 amended: the coercion applies to the supplier records create_stocks
\* matches.  If one of them has an unreadable quantity the builder fails
\* with ValueError and returns no record; otherwise the matched records
\* give, in order, one stock record each with ">10" as 100, "1" as 0 and
\* any other integer text as that integer.  Records it does not match are
\* not coerced and never make it fail.
C7_CoerceMatched ==
    StocksReturned =>
        LET live == MatchedRecords(watch_remnants, catalog)
            nth(j) == CHOOSE i \in live :
                          Cardinality({k \in live : k < i}) = j - 1
        IN  IF \E i \in live :
                   ~QuantityReadable(watch_remnants[i].Kolichestvo)
            THEN raised = "ValueError" /\ stocks = <<>>
            ELSE /\ raised = "" /\ pc = "stocks_built"
                 /\ Len(MatchedStocks) = Cardinality(live)
                 /\ \A j \in 1..Len(MatchedStocks) :
                       /\ StockId(MatchedStocks[j])
                              = watch_remnants[nth(j)].Kod
                       /\ StockQty(MatchedStocks[j])
                              = QuantityWorth(
                                    watch_remnants[nth(j)].Kolichestvo)

\* A matched record with quantity "1" gave 0, after a record that gave 5.
C7_Witness ==
    /\ mode = "build" /\ pc = "stocks_built"
    /\ Len(watch_remnants) = 2
    /\ watch_remnants[2].Kolichestvo = <<"1">>
    /\ Len(MatchedStocks) = 2
    /\ StockQty(MatchedStocks[1]) = 5
    /\ StockQty(MatchedStocks[2]) = 0

\* C9: when stock and price records are built from the same feed and the
\* same catalog, every identifier of a price record is the identifier of a
\* stock record built from a matching supplier record, and is the code of
\* a supplier record.
C9_PricesWithinMatched ==
    (mode = "build" /\ pc = "prices_built") =>
        \A i \in 1..Len(prices) :
            /\ \E j \in 1..Len(MatchedStocks) :
                  StockId(MatchedStocks[j]) = PriceId(prices[i])
            /\ PriceId(prices[i]) \in FeedCodesOf(watch_remnants)
            /\ PriceId(prices[i]) \in Elements(catalog)

\* Prices were built for some but not all of the known identifiers, from a
\* feed that also holds a code the marketplace does not list.
C9_Witness ==
    /\ mode = "build" /\ pc = "prices_built"
    /\ prices # <<>>
    /\ Len(offer_ids) > 0
    /\ \E i \in 1..Len(watch_remnants) :
          watch_remnants[i].Kod \notin Elements(catalog)

(***************************************************************************)
(* The orchestrators seller.main and market.main: Spec.                    *)
(* Every HTTP call either returns or raises; calls lists the calls issued, *)
(* one entry per call of get_offer_ids, download_stock, update_stocks and  *)
(* update_price, with the payload sent and whether it returned.            *)
(***************************************************************************)
\* What an HTTP call can raise: requests.exceptions.ReadTimeout,
\* requests.exceptions.ConnectionError, and HTTPError from
\* raise_for_status().
Failures == {"ReadTimeout", "ConnectionError", "HTTPError"}
Outcomes == {"ok"} \cup Failures

\* The accounts main works through, in order.
Accounts(prog) == IF prog = "seller" THEN <<"ozon">> ELSE <<"FBS", "DBS">>

\* Supplier feeds and catalogs of the orchestrator runs.  A catalog is
\* listed in alphabetical order, with or without repeated identifiers.
RunRecords ==
    {[Kod |-> "A", Kolichestvo |-> <<"5">>, Tsena |-> P100],
     [Kod |-> "B", Kolichestvo |-> <<"1">>, Tsena |-> P50],
     [Kod |-> "A", Kolichestvo |-> <<"x">>, Tsena |-> P100],
     [Kod |-> "B", Kolichestvo |-> GT10, Tsena |-> PriceExample]}
RunFeeds == SeqUpTo(RunRecords, MaxFeed)
Rank(c) == CASE c = "A" -> 1 [] c = "B" -> 2 [] c = "C" -> 3
RunCatalogs ==
    {l \in SeqUpTo(CatalogCodes, MaxRunIds) :
        \A i \in 1..(Len(l) - 1) : Rank(l[i]) <= Rank(l[i + 1])}
DbsCatalogs == {l \in RunCatalogs : Len(l) <= MaxDbsIds}

WarehouseOf(acc) == IF acc = "FBS" THEN "warehouse_fbs" ELSE "warehouse_dbs"

Init ==
    /\ mode = "main"
    /\ program \in {"seller", "market"}
    /\ catalog \in
           IF program = "seller" THEN [{"ozon"} -> RunCatalogs]
           ELSE {[a \in {"FBS", "DBS"} |-> IF a = "FBS" THEN f ELSE d] :
                    f \in RunCatalogs, d \in DbsCatalogs}
    /\ account = Accounts(program)[1]
    /\ pc = IF program = "seller" THEN "get_offer_ids" ELSE "download_stock"
    /\ watch_remnants = <<>> /\ offer_ids = <<>>
    /\ stocks = <<>> /\ prices = <<>> /\ raised = ""
    /\ pending = <<>> /\ calls = <<>> /\ printed = <<>> /\ coroutines = 0
    /\ text = <<>> /\ lst = <<>> /\ n = 1 /\ out = <<>>
    /\ NoRead

Call(op, payload, outcome) ==
    [op |-> op, account |-> account, payload |-> payload,
     ok |-> outcome = "ok"]

\* get_offer_ids(...) in main.
GetOfferIds ==
    /\ mode = "main" /\ pc = "get_offer_ids"
    /\ \E outcome \in Outcomes :
          /\ calls' = Append(calls, Call("get_offer_ids", <<>>, outcome))
          /\ IF outcome = "ok"
             THEN /\ offer_ids' = catalog[account]
                  /\ pc' = IF program = "seller" THEN "download_stock"
                           ELSE "create_stocks"
                  /\ UNCHANGED raised
             ELSE /\ raised' = outcome
                  /\ pc' = "except"
                  /\ UNCHANGED offer_ids
    /\ UNCHANGED <<mode, program, account, catalog, watch_remnants, stocks,
                   prices, pending, printed, coroutines, pureVars, readVars>>

\* watch_remnants = download_stock(): inside the try block in seller.main,
\* before it in market.main, where a failure ends the program with the
\* exception.
DownloadStock ==
    /\ mode = "main" /\ pc = "download_stock"
    /\ \E outcome \in Outcomes :
          /\ calls' = Append(calls, Call("download_stock", <<>>, outcome))
          /\ IF outcome = "ok"
             THEN /\ watch_remnants' \in RunFeeds
                  /\ pc' = IF program = "seller" THEN "create_stocks"
                           ELSE "get_offer_ids"
                  /\ UNCHANGED raised
             ELSE /\ raised' = outcome
                  /\ pc' = IF program = "seller" THEN "except" ELSE "crashed"
                  /\ UNCHANGED watch_remnants
    /\ UNCHANGED <<mode, program, account, catalog, offer_ids, stocks, prices,
                   pending, printed, coroutines, pureVars, readVars>>

StockBatch == IF program = "seller" THEN SellerStockBatch ELSE MarketStockBatch

\* The statement after the stock loop.
AfterStocks == IF program = "seller" THEN "create_prices" ELSE "upload_prices"

\* stocks = create_stocks(watch_remnants, offer_ids[, warehouse]) and
\* list(divide(stocks, ...)).
CreateStocks ==
    /\ mode = "main" /\ pc = "create_stocks"
    /\ LET r == IF program = "seller"
                THEN SellerCreateStocks(watch_remnants, offer_ids)
                ELSE MarketCreateStocks(watch_remnants, offer_ids,
                                        WarehouseOf(account))
           chunks == divide(r.stocks, StockBatch)
       IN  /\ offer_ids' = r.offer_ids
           /\ raised' = r.raised
           /\ IF r.raised = ""
              THEN /\ stocks' = r.stocks
                   /\ pending' = chunks
                   /\ pc' = IF chunks = <<>> THEN AfterStocks
                            ELSE "update_stocks"
              ELSE /\ pc' = "except"
                   /\ UNCHANGED <<stocks, pending>>
    /\ UNCHANGED <<mode, program, account, catalog, watch_remnants, prices,
                   calls, printed, coroutines, pureVars, readVars>>

\* Mutant: a failed chunk is skipped and the loop goes on.
UpdateStocksKeepGoing ==
    /\ mode = "main" /\ pc = "update_stocks"
    /\ \E outcome \in Outcomes :
          /\ calls' = Append(calls, Call("update_stocks", Head(pending),
                                         outcome))
          /\ pending' = Tail(pending)
          /\ pc' = IF Tail(pending) = <<>> THEN AfterStocks
                   ELSE "update_stocks"
          /\ UNCHANGED raised
    /\ UNCHANGED <<mode, program, account, catalog, watch_remnants, offer_ids,
                   stocks, prices, printed, coroutines, pureVars, readVars>>

\* One turn of: for some_stock in list(divide(stocks, ...)):
\*                  update_stocks(some_stock, ...)
UpdateStocks ==
    /\ mode = "main" /\ pc = "update_stocks"
    /\ \E outcome \in Outcomes :
          /\ calls' = Append(calls, Call("update_stocks", Head(pending),
                                         outcome))
          /\ pending' = Tail(pending)
          /\ IF outcome = "ok"
             THEN /\ pc' = IF Tail(pending) = <<>> THEN AfterStocks
                           ELSE "update_stocks"
                  /\ UNCHANGED raised
             ELSE /\ raised' = outcome
                  /\ pc' = "except"
    /\ UNCHANGED <<mode, program, account, catalog, watch_remnants, offer_ids,
                   stocks, prices, printed, coroutines, pureVars, readVars>>

\* seller.main: prices = create_prices(watch_remnants, offer_ids) on the
\* list create_stocks removed from, and list(divide(prices, 900)).
CreatePrices ==
    /\ mode = "main" /\ pc = "create_prices"
    /\ LET r == SellerCreatePrices(watch_remnants, offer_ids)
           chunks == divide(r.prices, SellerPriceBatch)
       IN  /\ prices' = r.prices
           /\ pending' = chunks
           /\ pc' = IF chunks = <<>> THEN "done" ELSE "update_price"
    /\ UNCHANGED <<mode, program, account, catalog, watch_remnants, offer_ids,
                   stocks, calls, printed, coroutines, raised, pureVars, readVars>>

\* One turn of: for some_price in list(divide(prices, 900)):
\*                  update_price(some_price, ...)
UpdatePrice ==
    /\ mode = "main" /\ pc = "update_price"
    /\ \E outcome \in Outcomes :
          /\ calls' = Append(calls, Call("update_price", Head(pending),
                                         outcome))
          /\ pending' = Tail(pending)
          /\ IF outcome = "ok"
             THEN /\ pc' = IF Tail(pending) = <<>> THEN "done"
                           ELSE "update_price"
                  /\ UNCHANGED raised
             ELSE /\ raised' = outcome
                  /\ pc' = "except"
    /\ UNCHANGED <<mode, program, account, catalog, watch_remnants, offer_ids,
                   stocks, prices, printed, coroutines, pureVars, readVars>>

\* market.main: upload_prices(watch_remnants, campaign_id, market_token).
\* upload_prices is an async def and the call is not awaited: it makes a
\* coroutine object and runs nothing of the function's body.
UploadPrices ==
    /\ mode = "main" /\ pc = "upload_prices"
    /\ coroutines' = coroutines + 1
    /\ IF account = "FBS"
       THEN account' = "DBS" /\ pc' = "get_offer_ids"
       ELSE account' = account /\ pc' = "done"
    /\ UNCHANGED <<mode, program, catalog, watch_remnants, offer_ids, stocks,
                   prices, pending, calls, printed, raised, pureVars, readVars>>

\* The message of the except clause that catches the exception.
Message(exc) ==
    IF exc = "ReadTimeout" THEN "timeout"
    ELSE IF exc = "ConnectionError" THEN "connection error"
    ELSE "ERROR_2"

\* Mutant: the run starts over after the message.
ExceptRetry ==
    /\ mode = "main" /\ pc = "except"
    /\ printed' = Append(printed, Message(raised))
    /\ pc' = "get_offer_ids"
    /\ UNCHANGED <<mode, program, account, catalog, watch_remnants, offer_ids,
                   stocks, prices, pending, calls, coroutines, raised,
                   pureVars, readVars>>

\* The except clauses of main: one message, then main returns.
Except ==
    /\ mode = "main" /\ pc = "except"
    /\ printed' = Append(printed, Message(raised))
    /\ pc' = "done"
    /\ UNCHANGED <<mode, program, account, catalog, watch_remnants, offer_ids,
                   stocks, prices, pending, calls, coroutines, raised,
                   pureVars, readVars>>

Next ==
    \/ GetOfferIds
    \/ DownloadStock
    \/ CreateStocks
    \/ UpdateStocks
    \/ CreatePrices
    \/ UpdatePrice
    \/ UploadPrices
    \/ Except

Spec == Init /\ [][Next]_vars

InMain == mode = "main"

\* The payloads of the calls of one operation for one account, in the
\* order issued, and the records of those that returned.
Payloads(op, acc) ==
    LET sel == SelectSeq(calls, LAMBDA c : c.op = op /\ c.account = acc)
    IN  [i \in 1..Len(sel) |-> sel[i].payload]
Pushed(op, acc) ==
    LET sel == SelectSeq(calls,
                         LAMBDA c : c.op = op /\ c.account = acc /\ c.ok)
    IN  Concat([i \in 1..Len(sel) |-> sel[i].payload])

ScenarioFeed ==
    <<[Kod |-> "A", Kolichestvo |-> <<"5">>, Tsena |-> P100],
      [Kod |-> "B", Kolichestvo |-> <<"1">>, Tsena |-> P50]>>

\* C3: a seller.main run in which every call succeeds pushes one price
\* record for every supplier record whose code is a known offer identifier
\* and none for other identifiers; with identifiers A, B, C and the feed
\* A (5, 100.00), B (1, 50.00) it pushes stocks A=5, B=0, C=0 and prices
\* A=100, B=50.
C3_SellerRunPushesPrices ==
    (InMain /\ program = "seller" /\ pc = "done" /\ raised = "") =>
        LET known == SelectSeq(watch_remnants,
                               LAMBDA w : In(w.Kod, catalog["ozon"]))
            pushed == Pushed("update_price", "ozon")
        IN  /\ Len(pushed) = Len(known)
            /\ \A i \in 1..Len(pushed) : pushed[i].offer_id = known[i].Kod
            /\ (catalog["ozon"] = <<"A", "B", "C">>
                  /\ watch_remnants = ScenarioFeed) =>
                  /\ Pushed("update_stocks", "ozon")
                        = <<[offer_id |-> "A", stock |-> 5],
                            [offer_id |-> "B", stock |-> 0],
                            [offer_id |-> "C", stock |-> 0]>>
                  /\ Len(pushed) = 2
                  /\ pushed[1].price = <<"1", "0", "0">>
                  /\ pushed[2].price = <<"5", "0">>

\* C4: when a market.main run in which every call succeeds ends, a price
\* update call has been issued, after the stock update calls of the
\* sub-account, for every supplier record whose code is a known offer
\* identifier of that sub-account.
C4_MarketRunPushesPrices ==
    (InMain /\ program = "market" /\ pc = "done" /\ raised = "") =>
        \A acc \in {"FBS", "DBS"} :
            \A i \in 1..Len(watch_remnants) :
                In(watch_remnants[i].Kod, catalog[acc]) =>
                    \E k \in 1..Len(calls) :
                        /\ calls[k].op = "update_price"
                        /\ calls[k].account = acc
                        /\ \E j \in 1..Len(calls[k].payload) :
                              calls[k].payload[j].id = watch_remnants[i].Kod
                        /\ \A m \in 1..Len(calls) :
                              (calls[m].op = "update_stocks"
                                 /\ calls[m].account = acc) => m < k

\* C6: the update calls are issued one per chunk, in chunk order; a failed
\* call is the last call of the run, so no chunk after a failed one is
\* sent, and the calls before it stay as they were sent.
C6_BatchUploader ==
    InMain =>
        /\ \A i \in 1..Len(calls) : ~calls[i].ok => i = Len(calls)
        /\ pc = "update_stocks" =>
              Payloads("update_stocks", account) \o pending
                  = divide(stocks, StockBatch)
        /\ (pc = "except" /\ calls # <<>>
              /\ calls[Len(calls)].op = "update_stocks") =>
              /\ Payloads("update_stocks", account) \o pending
                    = divide(stocks, StockBatch)
              /\ \A i \in 1..(Len(calls) - 1) : calls[i].ok
        /\ pc \in {"create_prices", "upload_prices"} =>
              /\ Payloads("update_stocks", account)
                    = divide(stocks, StockBatch)
              /\ Pushed("update_stocks", account) = stocks
        /\ pc = "update_price" =>
              Payloads("update_price", account) \o pending
                  = divide(prices, SellerPriceBatch)
        /\ (pc = "except" /\ calls # <<>>
              /\ calls[Len(calls)].op = "update_price") =>
              Payloads("update_price", account) \o pending
                  = divide(prices, SellerPriceBatch)
        /\ (pc = "done" /\ raised = "") =>
              /\ Pushed("update_stocks", account) = stocks
              /\ Pushed("update_price", account) = prices
              /\ program = "seller" =>
                    Payloads("update_price", account)
                        = divide(prices, SellerPriceBatch)

\* The first chunk was sent, the second failed, the third was never sent.
C6_Witness ==
    /\ InMain /\ pc = "done" /\ raised # ""
    /\ Len(divide(stocks, StockBatch)) = 3
    /\ Len(Payloads("update_stocks", account)) = 2
    /\ Len(Pushed("update_stocks", account)) = StockBatch
    /\ Len(pending) = 1

\* C10: a failure inside the guarded block of main is caught and reported
\* once; nothing is retried and no catalog read or update call is issued
\* after it; main then returns.  The calls that succeeded before it stay,
\* so a run can end with stock updated and prices not updated.
C10_State ==
    InMain =>
        /\ raised # "" => pc \in {"except", "done", "crashed"}
        /\ pc = "except" => printed = <<>> /\ ENABLED Next
        /\ pc = "done" =>
              printed = IF raised = "" THEN <<>> ELSE <<Message(raised)>>
        /\ pc = "crashed" =>
              /\ program = "market"
              /\ Len(calls) = 1 /\ calls[1].op = "download_stock"
        /\ \A i \in 1..Len(calls) : ~calls[i].ok => i = Len(calls)

C10_Step ==
    (InMain /\ raised # "") =>
        /\ calls' = calls
        /\ raised' = raised
        /\ pc = "except" /\ pc' = "done"
        /\ Len(printed') = Len(printed) + 1

\* C10 as one formula: the state part holds in every state, and once an
\* exception is raised the only step left is the except clause, which
\* issues no call and prints one message.
C10_CaughtOnceNoRetry == []C10_State /\ [][C10_Step]_vars

\* Stock was updated, the price update failed, main returned.
C10_Witness ==
    /\ InMain /\ pc = "done" /\ raised # "" /\ Len(printed) = 1
    /\ Pushed("update_stocks", account) = stocks /\ stocks # <<>>
    /\ calls[Len(calls)].op = "update_price" /\ ~calls[Len(calls)].ok
    /\ Pushed("update_price", account) = <<>>

\* C11: every price record the Delta Builder emits carries a numeric
\* price, whatever the supplier's price text: for Marketplace A a non-empty
\* string of digits, for Marketplace B an integer.
C11_NumericPrice ==
    (mode = "build" /\ pc = "prices_built") =>
        \A i \in 1..Len(prices) :
            IF program = "seller"
            THEN /\ prices[i].price # <<>>
                 /\ \A k \in 1..Len(prices[i].price) :
                       prices[i].price[k] \in Digits
            ELSE prices[i].price.value \in Nat

(***************************************************************************)
(* Catalog Reader: get_offer_ids of both marketplaces against a            *)
(* marketplace that serves a finite catalog in pages: SpecRead, and        *)
(* FairSpecRead where the loop keeps running.  In these specifications     *)
(* catalog is the list of identifiers the marketplace holds, and calls     *)
(* lists the page requests with the token sent and the response.           *)
(***************************************************************************)
\* The product objects of the two listings.
SellerProduct(id) == [offer_id |-> id]
MarketProduct(id) == [offer |-> [shopSku |-> id]]

\* The page the marketplace serves from a token: up to size products.
PageAt(token, size) ==
    LET last == IF token + size < Len(catalog) THEN token + size
                ELSE Len(catalog)
    IN  SubSeq(catalog, token + 1, last)

\* seller.get_product_list(last_id, ...): the "result" of the response.
SellerGetProductList(last_id, size) ==
    LET page == PageAt(last_id, size)
    IN  [items |-> [i \in 1..Len(page) |-> SellerProduct(page[i])],
         total |-> Len(catalog),
         last_id |-> last_id + Len(page)]

\* market.get_product_list(page, ...): the "result" of the response.  The
\* token of the page that ends the catalog is absent, or present and then
\* followed by an empty page without token.
MarketGetProductList(page_token, size, more) ==
    LET page == PageAt(page_token, size)
        served == page_token + Len(page)
    IN  [offerMappingEntries |->
             [i \in 1..Len(page) |-> MarketProduct(page[i])],
         paging |->
             [nextPageToken |->
                  IF served < Len(catalog) \/ (more /\ page # <<>>)
                  THEN served ELSE NoToken]]

\* Mutant: the loop stops after the first page that holds anything.
SellerLoopDoneFirstPage(total, products) == products # <<>> \/ total = 0

\* seller.get_offer_ids: if total == len(product_list): break
SellerLoopDone(total, products) == total = Len(products)

\* market.get_offer_ids: if not page: break
MarketLoopDone(page_token) == page_token = NoToken

\* The second loop of get_offer_ids: the identifier of each product.
SellerOfferIds(products) ==
    [i \in 1..Len(products) |-> products[i].offer_id]
MarketOfferIds(products) ==
    [i \in 1..Len(products) |-> products[i].offer.shopSku]

PageCall(token, outcome, items, total, next) ==
    [op |-> "get_product_list", account |-> account, payload |-> token,
     ok |-> outcome = "ok", items |-> items, total |-> total, next |-> next]

InitRead ==
    /\ mode = "read" /\ pc = "request"
    /\ program \in {"seller", "market"}
    /\ catalog \in SeqUpTo(CatalogCodes, MaxIds)
    /\ account = Accounts(program)[1]
    /\ watch_remnants = <<>> /\ offer_ids = <<>>
    /\ stocks = <<>> /\ prices = <<>> /\ raised = ""
    /\ pending = <<>> /\ calls = <<>> /\ printed = <<>> /\ coroutines = 0
    /\ text = <<>> /\ lst = <<>> /\ n = 1 /\ out = <<>>
    /\ NoRead

\* One turn of the while True loop of get_offer_ids: the page request,
\* product_list.extend(...), the new token and the test that ends the loop.
\* A request that raises ends get_offer_ids with the exception.
RequestPage ==
    /\ mode = "read" /\ pc = "request"
    /\ \E outcome \in Outcomes :
          IF outcome = "ok"
          THEN IF program = "seller"
               THEN \E size \in 1..SellerPageLimit :
                      LET some_prod == SellerGetProductList(cursor, size)
                          products == product_list \o some_prod.items
                      IN  /\ product_list' = products
                          /\ cursor' = some_prod.last_id
                          /\ calls' = Append(calls,
                                 PageCall(cursor, outcome, some_prod.items,
                                          some_prod.total,
                                          some_prod.last_id))
                          /\ pc' = IF SellerLoopDone(some_prod.total,
                                                     products)
                                   THEN "collect" ELSE "request"
                          /\ UNCHANGED raised
               ELSE \E size \in 1..MarketPageLimit, more \in BOOLEAN :
                      LET some_prod ==
                              MarketGetProductList(cursor, size, more)
                          page == some_prod.paging.nextPageToken
                      IN  /\ product_list' =
                                 product_list \o some_prod.offerMappingEntries
                          /\ cursor' = page
                          /\ calls' = Append(calls,
                                 PageCall(cursor, outcome,
                                          some_prod.offerMappingEntries,
                                          Len(catalog), page))
                          /\ pc' = IF MarketLoopDone(page)
                                   THEN "collect" ELSE "request"
                          /\ UNCHANGED raised
          ELSE /\ calls' = Append(calls, PageCall(cursor, outcome, <<>>,
                                                  0, NoToken))
               /\ raised' = outcome
               /\ pc' = "raised"
               /\ UNCHANGED <<product_list, cursor>>
    /\ UNCHANGED <<mode, program, account, catalog, watch_remnants, offer_ids,
                   stocks, prices, pending, printed, coroutines, pureVars>>

\* The second loop of get_offer_ids and its return.
ReturnOfferIds ==
    /\ mode = "read" /\ pc = "collect"
    /\ offer_ids' = IF program = "seller" THEN SellerOfferIds(product_list)
                    ELSE MarketOfferIds(product_list)
    /\ pc' = "returned"
    /\ UNCHANGED <<mode, program, account, catalog, watch_remnants, stocks,
                   prices, pending, calls, printed, coroutines, raised,
                   pureVars, readVars>>

NextRead == RequestPage \/ ReturnOfferIds

SpecRead == InitRead /\ [][NextRead]_vars

\* get_offer_ids is straight-line code in one thread: while it has a next
\* statement, it runs it.
FairSpecRead == SpecRead /\ WF_vars(NextRead)

\* The products of the pages received up to call k, in the order received.
RECURSIVE ReceivedUpTo(_)
ReceivedUpTo(k) ==
    IF k = 0 THEN <<>> ELSE ReceivedUpTo(k - 1) \o calls[k].items

ReadStopped == pc \in {"collect", "returned"}

\* The state part of C12: the reader stops exactly at the page the
\* marketplace's rule names, returns the identifiers of all pages received
\* in the order received (the whole catalog), and after a failed request
\* returns nothing.
C12_State ==
    mode = "read" =>
        /\ \A k \in 1..Len(calls) :
              /\ ~calls[k].ok => (k = Len(calls) /\ pc = "raised")
              /\ calls[k].ok =>
                    ((IF program = "seller"
                      THEN Len(ReceivedUpTo(k)) = calls[k].total
                      ELSE calls[k].next = NoToken)
                        <=> (k = Len(calls) /\ ReadStopped))
        /\ product_list = ReceivedUpTo(Len(calls))
        /\ pc = "returned" =>
              /\ Len(offer_ids) = Len(product_list)
              /\ \A i \in 1..Len(offer_ids) :
                    offer_ids[i] = IF program = "seller"
                                   THEN product_list[i].offer_id
                                   ELSE product_list[i].offer.shopSku
              /\ offer_ids = catalog
              /\ raised = ""
        /\ pc = "raised" =>
              /\ offer_ids = <<>>
              /\ raised \in Failures
              /\ calls # <<>> /\ ~calls[Len(calls)].ok
        /\ pc # "returned" => offer_ids = <<>>

\* C12: for every finite catalog served in pages, get_offer_ids eventually
\* stops requesting pages: it returns the identifiers of all pages it
\* received, in order, or a failing request ends it with the error and no
\* partial list.  Marketplace A stops after the page at which the
\* accumulated items equal the reported total, Marketplace B after the
\* first page whose next-page token is empty or absent.
C12_ReaderStopsAndReturnsAll ==
    []C12_State /\ <>(mode = "read" /\ pc \in {"returned", "raised"})

\* Three identifiers were read in two or more pages and returned in order.
C12_Witness ==
    /\ mode = "read" /\ pc = "returned"
    /\ Len(calls) >= 2
    /\ Len(catalog) = 3
    /\ offer_ids = catalog

====
